---- MODULE Spec2Model ----
(***************************************************************************)
(* CRM integration adapter of crm_crud_app: the request pipeline           *)
(* (BaseCRMService._make_request), the RetailCRM adapter operations        *)
(* (RetailCRMService) and the per-request service scope (get_crm_service). *)
(*                                                                         *)
(* An inbound request is served in steps: Receive (the dependency builds   *)
(* the service and its HTTP client), Invoke (the route handler calls the   *)
(* CRM operation, which issues its first outbound call), Respond (an       *)
(* outbound call ends; the operation runs on to its next await or to its   *)
(* end) and Finish (the dependency's finally block closes the client).     *)
(* The CRM backend is the environment: it keeps a set of orders that other *)
(* clients create and delete at any moment, and answers every call with    *)
(* one of the outcomes enumerated below.                                   *)
(***************************************************************************)
EXTENDS Integers, Sequences, FiniteSets, TLC

\* ------------------------------------------------------------------ bounds
NumReqs == 1
NumConc == 2
MaxOrderId == 1
MaxLen == 2

OrderIds == 1..MaxOrderId

VARIABLES orders, pc, op, arg, service, clients, closes, inflight, log, ret,
          input, output

\* input and output hold the argument and the result of a pure function
\* (filter conversion, phone normalization) in the specifications that
\* apply one; request handling leaves them alone.
pure == <<input, output>>

vars == <<orders, pc, op, arg, service, clients, closes, inflight, log, ret,
          input, output>>

\* --------------------------------------------------------------- constants
GET == "GET"
POST == "POST"

CUSTOMERS_LIST == <<"/customers">>
CUSTOMERS_CREATE == <<"/customers/create">>
ORDERS_LIST == <<"/orders">>
ORDER_CREATE == <<"/orders/create">>
PAYMENTS_CREATE == <<"/orders/payments/create">>

\* RetailCRMEndpoint.ORDER_GET.build(order_id=a): "/orders/{order_id}"
ORDER_GET(a) == <<"/orders/", ToString(a)>>

Ops == {"get_customers", "create_customer", "get_customer_orders",
        "create_order", "create_payment"}

\* The payload key an operation reads its resource from.
ResourceKey(o) ==
    CASE o = "get_customers" -> "customers"
      [] o = "create_customer" -> "customer"
      [] o = "get_customer_orders" -> "orders"
      [] o = "create_order" -> "order"
      [] o = "create_payment" -> "payment"

IsListOp(o) == o \in {"get_customers", "get_customer_orders"}

\* ------------------------------------------------------- response DTOs
\* Required fields of the response schema an operation builds (pydantic
\* fields without a default); optional fields are not listed.
RequiredFields(o) ==
    CASE o = "get_customers" -> {"id", "firstName"}
      [] o = "create_customer" -> {"id"}
      [] o = "get_customer_orders" ->
            {"id", "number", "customer", "items", "totalSumm", "createdAt"}
      [] o = "create_order" ->
            {"id", "number", "customer", "items", "totalSumm", "createdAt"}
      [] o = "create_payment" -> {"id"}

\* Fields a response schema keeps; every other key of the input is ignored
\* (pydantic's default extra = "ignore").
SchemaFields(o) ==
    CASE o = "get_customers" ->
            {"id", "firstName", "lastName", "email", "phones", "birthday"}
      [] OTHER -> RequiredFields(o)


\* ------------------------------------------------ outcomes of an HTTP call
\* Resource records the backend may send: mappings from field names to
\* opaque values (the id is the value the claims follow).
EmptyRec == <<>>
RFull == [id |-> 7, number |-> 1, customer |-> 1, items |-> 1,
          totalSumm |-> 1, createdAt |-> 1, firstName |-> 1]
RNoId == [number |-> 1]
RTop == [id |-> 9, number |-> 1, customer |-> 1, items |-> 1,
         totalSumm |-> 1, createdAt |-> 1, firstName |-> 1]

\* An optional value is <<>> (key absent) or <<v>> (key present).
Payload(success, errorMsg, wrapped, top, pagination) ==
    [success |-> success, errorMsg |-> errorMsg, wrapped |-> wrapped,
     top |-> top, pagination |-> pagination]

\* 2xx bodies whose envelope reports failure (success false or missing).
FailurePayloads ==
    {Payload(s, m, <<>>, EmptyRec, <<>>) :
        s \in {<<FALSE>>, <<>>}, m \in {<<>>, <<"bad">>}}

\* 2xx bodies whose envelope reports success, for an endpoint that answers
\* with one resource: under its type-named key (absent, empty, with or
\* without an id) and/or unwrapped at the top level.
ResourcePayloads ==
    {Payload(<<TRUE>>, <<>>, w, t, <<>>) :
        w \in {<<>>, <<EmptyRec>>, <<RFull>>, <<RNoId>>},
        t \in {EmptyRec, RTop}}

\* 2xx bodies whose envelope reports success, for a list endpoint: the
\* collection key absent, an empty list, valid elements, an invalid element.
ListPayloads ==
    {Payload(<<TRUE>>, <<>>, w, EmptyRec, <<>>) :
        w \in {<<>>, << <<>> >>, << <<RFull>> >>, << <<RFull, RNoId>> >>}}
    \cup {Payload(<<TRUE>>, <<>>, << <<RFull>> >>, EmptyRec, <<"p">>)}

\* 2xx bodies whose envelope reports success, for GET /orders/<id>: the
\* 'order' key absent, empty, or holding the order.
OrderPayloads ==
    {Payload(<<TRUE>>, <<>>, w, EmptyRec, <<>>) :
        w \in {<<>>, <<EmptyRec>>, <<RFull>>}}

Outcome(kind, status, text, json) ==
    [kind |-> kind, status |-> status, text |-> text, json |-> json]

Statuses == {200, 404, 500}

\* httpx Response.is_success
IsSuccessStatus(status) == status >= 200 /\ status <= 299

\* Everything client.request(...) followed by raise_for_status() and json()
\* can end in: no response at all (timeout, connection failure), a non-2xx
\* response with a body text, a 2xx response whose body is not JSON, a 2xx
\* response with a JSON payload.
NetworkFailures ==
    {Outcome(k, 0, "", <<>>) : k \in {"timeout", "connect"}}

ErrorResponses ==
    {Outcome("response", s, t, <<>>) :
        s \in {x \in Statuses : ~IsSuccessStatus(x)},
        t \in {"internal", "gone"}}

JsonResponses(payloads) ==
    {Outcome("response", 200, "", <<p>>) : p \in payloads}

\* What an endpoint answers with: a list, the order read, a created resource.
EndpointKind(endpoint) ==
    IF endpoint \in {<<"/customers">>, <<"/orders">>} THEN "list"
    ELSE IF Len(endpoint) = 2 THEN "order"
    ELSE "resource"

SuccessPayloads(endpoint) ==
    CASE EndpointKind(endpoint) = "list" -> ListPayloads
      [] EndpointKind(endpoint) = "order" -> OrderPayloads
      [] OTHER -> ResourcePayloads

Outcomes(endpoint) ==
    NetworkFailures \cup ErrorResponses
    \cup {Outcome("response", 200, "<html>", <<>>)}
    \cup JsonResponses(FailurePayloads)
    \cup JsonResponses(SuccessPayloads(endpoint))

\* One outcome for every way an operation ends: no response, a non-2xx
\* response, a payload with its resource, a payload without it.
CoreOutcomes(endpoint) ==
    {Outcome("timeout", 0, "", <<>>),
     Outcome("response", 500, "internal", <<>>),
     Outcome("response", 200, "",
             <<Payload(<<TRUE>>, <<>>,
                       IF EndpointKind(endpoint) = "list" THEN << <<RFull>> >> ELSE <<RFull>>,
                       EmptyRec, <<>>)>>),
     Outcome("response", 200, "", <<Payload(<<TRUE>>, <<>>, <<>>, EmptyRec, <<>>)>>)}

\* ------------------------------------------------- results of a function
Return(v) == [kind |-> "return", value |-> v]
Raise(cls, msg) == [kind |-> "raise", cls |-> cls, msg |-> msg]

Returned(x) == x.kind = "return"
Raised(x) == x.kind = "raise"

\* ------------------------------------------------------- Python values
\* A value is tagged with its type: None, a string, an int (its digits), a
\* dict (its keys and their values, in insertion order) or a list.
Value(t, v, keys, items) == [t |-> t, v |-> v, keys |-> keys, items |-> items]

None == Value("none", "", <<>>, <<>>)
Str(x) == Value("str", x, <<>>, <<>>)
IntV(x) == Value("int", x, <<>>, <<>>)
Dict(keys, items) == Value("dict", "", keys, items)
List(items) == Value("list", "", <<>>, items)

\* d.get(key): the value under key, None when the key is absent.
DictGet(d, key) ==
    IF \E i \in DOMAIN d.keys : d.keys[i] = key
    THEN d.items[CHOOSE i \in DOMAIN d.keys : d.keys[i] = key]
    ELSE None

\* bool(x)
Truthy(x) ==
    CASE x.t = "none" -> FALSE
      [] x.t = "str" -> x.v # ""
      [] x.t = "int" -> x.v # "0"
      [] OTHER -> x.items # <<>>

\* ------------------------------------------------------ filter conversion
\* A query parameter mapping is a set of <<key, value>> pairs with one pair
\* per key. A key is the sequence of its segments: <<"limit">> is the key
\* limit, <<"filter", "a", "b">> is filter[a][b], and the segment of the
\* list suffix [] is the empty string.
Put(params, key, value) == {q \in params : q[1] # key} \cup {<<key, value>>}

Keys(params) == {q[1] : q \in params}

\* The mapping without its entries whose value is None, in order.
RECURSIVE DropNone(_, _)
DropNone(keys, items) ==
    IF keys = <<>> THEN Dict(<<>>, <<>>)
    ELSE LET rest == DropNone(Tail(keys), Tail(items))
         IN  IF Head(items).t = "none" THEN rest
             ELSE Dict(<<Head(keys)>> \o rest.keys, <<Head(items)>> \o rest.items)

\* by_alias=True: the serialization alias of a field.
Alias(schema, field) ==
    IF schema = "CustomerGetOrdersSchema" /\ field = "customer_id"
    THEN "customerId"
    ELSE field

\* filter_dto.model_dump(exclude_none=True, by_alias=True) of the two
\* filter schemas, whose fields are scalars.
ModelDump(dto) ==
    DropNone([i \in DOMAIN dto.keys |-> Alias(dto.kind, dto.keys[i])], dto.items)

\* The inner function flatten of _convert_filter_data_to_retail_crm_style;
\* FlattenFrom is its loop over the entries of a dict or a list from the
\* i-th on.
RECURSIVE Flatten(_, _, _), FlattenFrom(_, _, _, _)
Flatten(prefix, value, params) ==
    IF value.t \in {"dict", "list"}
    THEN FlattenFrom(prefix, value, 1, params)
    ELSE Put(params, prefix, value)

FlattenFrom(prefix, value, i, params) ==
    IF i > Len(value.items) THEN params
    ELSE FlattenFrom(prefix, value, i + 1,
                     Flatten(prefix \o <<IF value.t = "dict" THEN value.keys[i] ELSE "">>,
                             value.items[i], params))

\* The two loops over the top-level entries: limit and page go to params as
\* they are, every other entry is flattened under filter[<key>].
RECURSIVE TopLevel(_, _, _), FilterEntries(_, _, _)
TopLevel(filters, i, params) ==
    IF i > Len(filters.keys) THEN params
    ELSE TopLevel(filters, i + 1,
                  IF filters.keys[i] \in {"limit", "page"}
                  THEN Put(params, <<filters.keys[i]>>, filters.items[i])
                  ELSE params)

FilterEntries(filters, i, params) ==
    IF i > Len(filters.keys) THEN params
    ELSE FilterEntries(filters, i + 1,
                       IF filters.keys[i] \in {"limit", "page"}
                       THEN params
                       ELSE Flatten(<<"filter", filters.keys[i]>>, filters.items[i], params))

\* ConvertFilter with limit and page flattened like every other entry.
ConvertFilterAllNested(filter_dto) ==
    LET filters == IF filter_dto.kind # "dict"
                   THEN ModelDump(filter_dto)
                   ELSE DropNone(filter_dto.keys, filter_dto.items)
    IN  Flatten(<<"filter">>, filters, {})

\* RetailCRMService._convert_filter_data_to_retail_crm_style
ConvertFilter(filter_dto) ==
    LET filters == IF filter_dto.kind # "dict"
                   THEN ModelDump(filter_dto)
                   ELSE DropNone(filter_dto.keys, filter_dto.items)
    IN  FilterEntries(filters, 1, TopLevel(filters, 1, {}))

\* ---------------------------------------------------- request pipeline
\* RetailCRMService._validate_response: raises unless the payload's
\* 'success' is present and truthy; the message carries errorMsg, or
\* 'Unknown error' when the payload has none.
ValidateResponse(p) ==
    IF p.success = <<TRUE>>
    THEN Return(<<>>)
    ELSE Raise("Exception",
               <<"RetailCRM API error: ",
                 IF p.errorMsg = <<>> THEN "Unknown error" ELSE p.errorMsg[1]>>)

\* str(e) of what client.request / response.json raise.
ErrorText(out) ==
    CASE out.kind = "timeout" -> <<"timed out">>
      [] out.kind = "connect" -> <<"All connection attempts failed">>
      [] OTHER -> <<"Expecting value">>

\* MakeRequest with the response body left out of the transport message.
MakeRequestNoBody(out) ==
    IF out.kind # "response"
    THEN Raise("Exception", <<"Request error: ">> \o ErrorText(out))
    ELSE IF ~IsSuccessStatus(out.status)
    THEN Raise("Exception", <<"CRM API error: ", "HTTP ", ToString(out.status)>>)
    ELSE IF out.json = <<>>
    THEN Raise("Exception", <<"Request error: ">> \o ErrorText(out))
    ELSE LET v == ValidateResponse(out.json[1])
         IN  IF Raised(v)
             THEN Raise("Exception", <<"Request error: ">> \o v.msg)
             ELSE Return(out.json[1])

\* MakeRequest with one except clause for every failure.
MakeRequestOneKind(out) ==
    IF out.kind # "response"
    THEN Raise("Exception", <<"CRM API error: ">> \o ErrorText(out))
    ELSE IF ~IsSuccessStatus(out.status)
    THEN Raise("Exception",
               <<"CRM API error: ", "HTTP ", ToString(out.status), ": ", out.text>>)
    ELSE IF out.json = <<>>
    THEN Raise("Exception", <<"CRM API error: ">> \o ErrorText(out))
    ELSE LET v == ValidateResponse(out.json[1])
         IN  IF Raised(v)
             THEN Raise("Exception", <<"CRM API error: ">> \o v.msg)
             ELSE Return(out.json[1])

\* MakeRequest without the call of _validate_response.
MakeRequestNoValidate(out) ==
    IF out.kind # "response"
    THEN Raise("Exception", <<"Request error: ">> \o ErrorText(out))
    ELSE IF ~IsSuccessStatus(out.status)
    THEN Raise("Exception",
               <<"CRM API error: ", "HTTP ", ToString(out.status), ": ", out.text>>)
    ELSE IF out.json = <<>>
    THEN Raise("Exception", <<"Request error: ">> \o ErrorText(out))
    ELSE Return(out.json[1])

\* MakeRequest with the body validated before the status is looked at.
MakeRequestValidateFirst(out) ==
    IF out.kind # "response"
    THEN Raise("Exception", <<"Request error: ">> \o ErrorText(out))
    ELSE IF out.json # <<>>
    THEN LET v == ValidateResponse(out.json[1])
         IN  IF Raised(v)
             THEN Raise("Exception", <<"Request error: ">> \o v.msg)
             ELSE Return(out.json[1])
    ELSE IF ~IsSuccessStatus(out.status)
    THEN Raise("Exception",
               <<"CRM API error: ", "HTTP ", ToString(out.status), ": ", out.text>>)
    ELSE Raise("Exception", <<"Request error: ">> \o ErrorText(out))

\* BaseCRMService._make_request, from the end of client.request on: the
\* try body (raise_for_status, json, _validate_response, return) and the two
\* except clauses, which re-raise a plain Exception.
MakeRequest(out) ==
    IF out.kind # "response"
    THEN Raise("Exception", <<"Request error: ">> \o ErrorText(out))
    ELSE IF ~IsSuccessStatus(out.status)
    THEN Raise("Exception",
               <<"CRM API error: ", "HTTP ", ToString(out.status), ": ", out.text>>)
    ELSE IF out.json = <<>>
    THEN Raise("Exception", <<"Request error: ">> \o ErrorText(out))
    ELSE LET v == ValidateResponse(out.json[1])
         IN  IF Raised(v)
             THEN Raise("Exception", <<"Request error: ">> \o v.msg)
             ELSE Return(out.json[1])


\* settings.RETAIL_CRM_API_KEY, as the tests set it.
API_KEY == Str("abc123")

\* _prepare_request_params without the key.
PrepareRequestParamsNoKey(params) ==
    IF params # <<>> /\ params[1] # {} THEN params[1] ELSE {}

\* RetailCRMService._prepare_request_params: params is <<>> for None.
PrepareRequestParams(params) ==
    Put(IF params # <<>> /\ params[1] # {} THEN params[1] ELSE {},
        <<"apiKey">>, API_KEY)

\* The method _prepare_request_headers assumes when it is given none.
HeadersDefaultMethod == POST

\* RetailCRMService._prepare_request_headers: headers is <<>> for None.
PrepareRequestHeaders(headers, method) ==
    LET h == IF headers = <<>> THEN {} ELSE headers[1]
    IN  IF method = POST
        THEN Put(h, "Content-Type", "application/x-www-form-urlencoded")
        ELSE h

\* BaseCRMService._make_request up to client.request: what it hands to the
\* client.  The headers are prepared without the method being passed on.
Prepared(method, params, headers) ==
    [params |-> PrepareRequestParams(params),
     headers |-> PrepareRequestHeaders(headers, HeadersDefaultMethod)]

\* ------------------------------------------------------- the operations
Call(method, endpoint) == [method |-> method, endpoint |-> endpoint]

\* SomeResponseSchema(**data): fails when a required field is missing,
\* keeps the schema's fields and ignores every other key.
BuildDTO(o, data) ==
    IF RequiredFields(o) \subseteq DOMAIN data
    THEN Return([f \in SchemaFields(o) \cap DOMAIN data |-> data[f]])
    ELSE Raise("ValidationError", <<"Field required">>)

\* Normalize without the fall-back to the whole payload.
NormalizeWrappedOnly(p) ==
    IF p.wrapped # <<>> THEN p.wrapped[1] ELSE EmptyRec

\* Normalize preferring the wrapped resource only when it has an id.
NormalizeFirstWithId(p) ==
    IF p.wrapped # <<>> /\ "id" \in DOMAIN p.wrapped[1]
    THEN p.wrapped[1]
    ELSE p.top

\* result.get("<resource>") or result
Normalize(p) ==
    IF p.wrapped # <<>> /\ DOMAIN p.wrapped[1] # {}
    THEN p.wrapped[1]
    ELSE p.top

\* FirstCalls with create_payment's read and write issued together.
FirstCallsTogether(o, a) ==
    CASE o = "get_customers" -> <<Call(GET, CUSTOMERS_LIST)>>
      [] o = "create_customer" -> <<Call(POST, CUSTOMERS_CREATE)>>
      [] o = "get_customer_orders" -> <<Call(GET, ORDERS_LIST)>>
      [] o = "create_order" -> <<Call(POST, ORDER_CREATE)>>
      [] o = "create_payment" ->
            <<Call(GET, ORDER_GET(a)), Call(POST, PAYMENTS_CREATE)>>

\* The outbound call(s) an operation issues before its first await.
FirstCalls(o, a) ==
    CASE o = "get_customers" -> <<Call(GET, CUSTOMERS_LIST)>>
      [] o = "create_customer" -> <<Call(POST, CUSTOMERS_CREATE)>>
      [] o = "get_customer_orders" -> <<Call(GET, ORDERS_LIST)>>
      [] o = "create_order" -> <<Call(POST, ORDER_CREATE)>>
      [] o = "create_payment" -> <<Call(GET, ORDER_GET(a))>>

\* The filters a route hands to a list operation.
FiltersOf(o) ==
    IF o = "get_customers"
    THEN [kind |-> "CustomerFiltersSchema",
          keys |-> <<"name", "email", "created_at_from", "created_at_to", "limit", "page">>,
          items |-> <<Str("John"), None, None, None, IntV("10"), IntV("2")>>]
    ELSE [kind |-> "CustomerGetOrdersSchema",
          keys |-> <<"customer_id", "limit", "page">>,
          items |-> <<IntV("5"), IntV("20"), IntV("1")>>]

\* params = {"limit": ..., "page": ...}; params.update(<converted filters>)
ListParams(dto) ==
    LET base == {<<<<"limit">>, DictGet(dto, "limit")>>, <<<<"page">>, DictGet(dto, "page")>>}
        filters == ConvertFilter(dto)
    IN  {q \in base : q[1] \notin Keys(filters)} \cup filters

\* The params get_customers and get_customer_orders build from their filters.
GetCustomersParams == ListParams(FiltersOf("get_customers"))

GetCustomerOrdersParams == ListParams(FiltersOf("get_customer_orders"))

\* The params argument an operation passes to _make_request with the call
\* c, <<>> when it passes none.
CallParams(o, c) ==
    IF o = "get_customers" THEN <<GetCustomersParams>>
    ELSE IF o = "get_customer_orders" THEN <<GetCustomerOrdersParams>>
    ELSE IF o = "create_payment" /\ c.method = GET THEN <<{<<<<"by">>, Str("id")>>}>>
    ELSE <<>>

\* What an operation does once a call has ended: [ret, issue], where ret is
\* <<>> (still running) or <<its result>>, and issue the calls it issues now.
Step(r, issue) == [ret |-> r, issue |-> issue]

\* get_customers / get_customer_orders after _make_request: one DTO per
\* element of result.get("<collection>", []), and the pagination as sent.
ListFinish(o, mr) ==
    IF Raised(mr)
    THEN mr
    ELSE LET items == IF mr.value.wrapped = <<>> THEN <<>> ELSE mr.value.wrapped[1]
         IN  IF \A i \in DOMAIN items : Returned(BuildDTO(o, items[i]))
             THEN Return([items |-> [i \in DOMAIN items |-> BuildDTO(o, items[i]).value],
                          pagination |-> mr.value.pagination])
             ELSE Raise("ValidationError", <<"Field required">>)

\* create_customer / create_order, and create_payment after its POST.
CreateFinish(o, mr) ==
    IF Raised(mr) THEN mr ELSE BuildDTO(o, Normalize(mr.value))

\* CreatePaymentAfterRead without the check of the order record.
CreatePaymentNoOrderCheck(a, mr) ==
    IF Raised(mr)
    THEN Step(<<mr>>, <<>>)
    ELSE Step(<<>>, <<Call(POST, PAYMENTS_CREATE)>>)

\* CreatePaymentAfterRead with a failed read leaving the operation waiting.
CreatePaymentWaitsOnFailure(a, mr) ==
    IF Raised(mr)
    THEN Step(<<>>, <<>>)
    ELSE IF mr.value.success # <<TRUE>>
            \/ mr.value.wrapped = <<>>
            \/ DOMAIN mr.value.wrapped[1] = {}
    THEN Step(<<Raise("Exception",
                      <<"Order with id ", ToString(a), " not found">>)>>, <<>>)
    ELSE Step(<<>>, <<Call(POST, PAYMENTS_CREATE)>>)

\* create_payment after the order-existence read.
CreatePaymentAfterRead(a, mr) ==
    IF Raised(mr)
    THEN Step(<<mr>>, <<>>)
    ELSE IF mr.value.success # <<TRUE>>
            \/ mr.value.wrapped = <<>>
            \/ DOMAIN mr.value.wrapped[1] = {}
    THEN Step(<<Raise("Exception",
                      <<"Order with id ", ToString(a), " not found">>)>>, <<>>)
    ELSE Step(<<>>, <<Call(POST, PAYMENTS_CREATE)>>)

\* OpStep with one more attempt after a failed first call.
OpStepRetry(o, a, n, out) ==
    LET mr == MakeRequest(out)
    IN  IF Raised(mr) /\ n = 1 THEN Step(<<>>, FirstCalls(o, a))
        ELSE IF IsListOp(o) THEN Step(<<ListFinish(o, mr)>>, <<>>)
        ELSE IF o = "create_payment" /\ n = 1 THEN CreatePaymentAfterRead(a, mr)
        ELSE Step(<<CreateFinish(o, mr)>>, <<>>)

\* The operation o with argument a, after its n-th call ended with out.
OpStep(o, a, n, out) ==
    LET mr == MakeRequest(out)
    IN  IF IsListOp(o) THEN Step(<<ListFinish(o, mr)>>, <<>>)
        ELSE IF o = "create_payment" /\ n = 1 THEN CreatePaymentAfterRead(a, mr)
        ELSE Step(<<CreateFinish(o, mr)>>, <<>>)

\* ------------------------------------------------------- service scope
\* RetailCRMService(): every construction makes a new httpx.AsyncClient.
NewClient(cs) == Len(cs) + 1

\* ServiceScopeExit with the close after the yield instead of in a finally.
ServiceScopeExitNoFinally(raised, st) == IF raised THEN st ELSE "closed"

\* get_crm_service after the yield: finally: await service.close()
ServiceScopeExit(raised, st) == "closed"

\* --------------------------------------------------------------- backend
\* A success payload carrying a non-empty order record.
ReportsOrder(out) ==
    /\ out.kind = "response"
    /\ IsSuccessStatus(out.status)
    /\ out.json # <<>>
    /\ out.json[1].success = <<TRUE>>
    /\ out.json[1].wrapped # <<>>
    /\ DOMAIN out.json[1].wrapped[1] # {}

\* The backend's answers to a call: anything the universe holds, except that
\* it reports an order on GET /orders/<id> only while it has that order.
BackendAnswers(universe, c, os) ==
    {out \in universe :
        \A a \in OrderIds :
            (c.endpoint = ORDER_GET(a) /\ ReportsOrder(out)) => a \in os}

\* ---------------------------------------------------------------- actions
InitWith(reqs) ==
    /\ orders \in SUBSET OrderIds
    /\ pc = [r \in reqs |-> "idle"]
    /\ op = [r \in reqs |-> "none"]
    /\ arg = [r \in reqs |-> 0]
    /\ service = [r \in reqs |-> 0]
    /\ clients = <<>>
    /\ closes = <<>>
    /\ inflight = [r \in reqs |-> <<>>]
    /\ log = [r \in reqs |-> <<>>]
    /\ ret = [r \in reqs |-> <<>>]
    /\ input = <<>>
    /\ output = <<>>

Init == InitWith(1..NumReqs)

InitLife == InitWith(1..NumConc) /\ orders = OrderIds

Reqs == DOMAIN pc

\* Another client of the backend creates an order.
OtherClientCreatesOrder(o) ==
    /\ o \notin orders
    /\ orders' = orders \cup {o}
    /\ UNCHANGED <<pc, op, arg, service, clients, closes, inflight, log, ret, input, output>>

\* Another client of the backend deletes an order.
OtherClientDeletesOrder(o) ==
    /\ o \in orders
    /\ orders' = orders \ {o}
    /\ UNCHANGED <<pc, op, arg, service, clients, closes, inflight, log, ret, input, output>>

\* An inbound request arrives; Depends(get_crm_service) runs up to its
\* yield: service = RetailCRMService(), which builds its own client.
Receive(r, o, a) ==
    /\ pc[r] = "idle"
    /\ LET c == NewClient(clients)
       IN  /\ service' = [service EXCEPT ![r] = c]
           /\ clients' = [i \in 1..(IF c > Len(clients) THEN c ELSE Len(clients)) |->
                             IF i = c THEN "open" ELSE clients[i]]
           /\ closes' = [i \in 1..(IF c > Len(closes) THEN c ELSE Len(closes)) |->
                             IF i > Len(closes) THEN 0 ELSE closes[i]]
    /\ op' = [op EXCEPT ![r] = o]
    /\ arg' = [arg EXCEPT ![r] = a]
    /\ pc' = [pc EXCEPT ![r] = "handler"]
    /\ UNCHANGED <<orders, inflight, log, ret, input, output>>

\* One entry of inflight: the call, the query parameters and headers handed
\* to the client with it, and whether the client was open at that moment.
Sent(r, c) ==
    LET req == Prepared(c.method, CallParams(op[r], c), <<>>)
    IN  [call |-> c, params |-> req.params, headers |-> req.headers,
         open |-> clients[service[r]] = "open"]

SentAll(r, cs) == [i \in DOMAIN cs |-> Sent(r, cs[i])]

\* The route handler awaits service.<operation>(dto): the operation runs to
\* its first await inside client.request.
Invoke(r) ==
    /\ pc[r] = "handler"
    /\ inflight' = [inflight EXCEPT ![r] = SentAll(r, FirstCalls(op[r], arg[r]))]
    /\ pc' = [pc EXCEPT ![r] = "running"]
    /\ UNCHANGED <<orders, op, arg, service, clients, closes, log, ret, input, output>>

Remove(s, i) == [j \in 1..(Len(s) - 1) |-> IF j < i THEN s[j] ELSE s[j + 1]]

\* The i-th call in flight of request r ends with outcome out; the operation
\* resumes and runs to its next await or to its end.
RespondWith(r, i, out) ==
    /\ pc[r] = "running"
    /\ i \in DOMAIN inflight[r]
    /\ LET n == Len(log[r]) + 1
           st == OpStep(op[r], arg[r], n, out)
       IN  /\ log' = [log EXCEPT ![r] =
                        Append(@, [call |-> inflight[r][i].call,
                                   params |-> inflight[r][i].params,
                                   headers |-> inflight[r][i].headers,
                                   open |-> inflight[r][i].open,
                                   out |-> out,
                                   existed |-> arg[r] \in orders])]
           /\ inflight' = [inflight EXCEPT ![r] =
                             Remove(@, i) \o SentAll(r, st.issue)]
           /\ IF st.ret # <<>> /\ ret[r] = <<>>
              THEN /\ ret' = [ret EXCEPT ![r] = st.ret]
                   /\ pc' = [pc EXCEPT ![r] =
                               IF Len(inflight[r]) = 1 THEN "done" ELSE "running"]
              ELSE /\ ret' = ret
                   /\ pc' = [pc EXCEPT ![r] =
                               IF Len(inflight[r]) = 1 /\ st.issue = <<>> /\ ret[r] # <<>>
                               THEN "done" ELSE "running"]
    /\ UNCHANGED <<orders, op, arg, service, clients, closes, input, output>>

Respond(r) ==
    \E i \in DOMAIN inflight[r] :
        \E out \in BackendAnswers(Outcomes(inflight[r][i].call.endpoint),
                                  inflight[r][i].call, orders) :
            RespondWith(r, i, out)

RespondCore(r) ==
    \E i \in DOMAIN inflight[r] :
        \E out \in BackendAnswers(CoreOutcomes(inflight[r][i].call.endpoint),
                                  inflight[r][i].call, orders) :
            RespondWith(r, i, out)

\* The operation has returned or raised (the route handler turns an
\* exception into HTTPException(500)); the dependency's finally block runs
\* and the request is complete.
Finish(r) ==
    /\ pc[r] = "done"
    /\ clients' = [clients EXCEPT ![service[r]] =
                      ServiceScopeExit(Raised(ret[r][1]), @)]
    /\ closes' = [closes EXCEPT ![service[r]] =
                     IF clients'[service[r]] = "closed" THEN @ + 1 ELSE @]
    /\ pc' = [pc EXCEPT ![r] = "complete"]
    /\ UNCHANGED <<orders, op, arg, service, inflight, log, ret, input, output>>

ReceiveAny(r) ==
    \E o \in Ops :
        \E a \in (IF o = "create_payment" THEN OrderIds ELSE {0}) :
            Receive(r, o, a)

Next ==
    \/ \E o \in OrderIds : OtherClientCreatesOrder(o)
    \/ \E o \in OrderIds : OtherClientDeletesOrder(o)
    \/ \E r \in Reqs : ReceiveAny(r)
    \/ \E r \in Reqs : Invoke(r)
    \/ \E r \in Reqs : Respond(r)
    \/ \E r \in Reqs : Finish(r)

Spec == Init /\ [][Next]_vars

\* The same program with several requests in flight, the backend's answers
\* drawn from one outcome per way of ending, and no other backend client.
NextLife ==
    \/ \E r \in Reqs : ReceiveAny(r)
    \/ \E r \in Reqs : Invoke(r)
    \/ \E r \in Reqs : RespondCore(r)
    \/ \E r \in Reqs : Finish(r)

SpecLife == InitLife /\ [][NextLife]_vars


\* The program with the scheduling it runs under: the event loop resumes a
\* handler that is ready (Invoke, Finish), and every outbound call ends, in
\* a response or, after the client's timeout, in a timeout (RespondCore).
\* At most one of the three is enabled for a request at a time.  Whether a
\* request arrives, and what other clients do, is left open.
\* A step of request r that needs nothing but to be scheduled.
Progress(r) == Invoke(r) \/ RespondCore(r) \/ Finish(r)

NextLive ==
    \/ \E o \in OrderIds : OtherClientCreatesOrder(o)
    \/ \E o \in OrderIds : OtherClientDeletesOrder(o)
    \/ \E r \in Reqs : ReceiveAny(r)
    \/ \E r \in Reqs : Invoke(r)
    \/ \E r \in Reqs : RespondCore(r)
    \/ \E r \in Reqs : Finish(r)

SpecLive ==
    /\ Init
    /\ [][NextLive]_vars
    /\ \A r \in 1..NumReqs : WF_vars(Progress(r))

\* ------------------------------------------- the filter conversion alone
\* The sequences over S of length at most n.
SeqsUpTo(S, n) == UNION {[1..k -> S] : k \in 0..n}

\* A mapping literal: the keys whose value is Absent are left out.
Absent == Value("absent", "", <<>>, <<>>)

RECURSIVE Compact(_, _)
Compact(keys, items) ==
    IF keys = <<>> THEN Dict(<<>>, <<>>)
    ELSE LET rest == Compact(Tail(keys), Tail(items))
         IN  IF Head(items) = Absent THEN rest
             ELSE Dict(<<Head(keys)>> \o rest.keys, <<Head(items)>> \o rest.items)

Mapping(kind, keys, items) ==
    [kind |-> kind, keys |-> Compact(keys, items).keys, items |-> Compact(keys, items).items]

Leaves == {None, Str("1"), Str("2")}

PhoneDicts ==
    {Compact(<<"number", "ext">>, <<n, e>>) :
        n \in Leaves \cup {Absent}, e \in {Absent, Str("9")}}

\* Values nested one level: a leaf, a dict of leaves, a list of leaves.
Nested1 == Leaves \cup PhoneDicts \cup {List(q) : q \in SeqsUpTo(Leaves, MaxLen)}

\* Values nested two levels: a dict holding a dict, a list of dicts and lists.
Nested2 ==
    Nested1
    \cup {Dict(<<"inner">>, <<d>>) : d \in PhoneDicts}
    \cup {List(q) :
            q \in SeqsUpTo({Str("1"), Dict(<<"number">>, <<Str("1")>>),
                            Dict(<<"number">>, <<Str("2")>>),
                            Dict(<<"number">>, <<None>>),
                            List(<<Str("1")>>)}, MaxLen)}

\* Plain mappings handed to the conversion.
DictInputs ==
    {Mapping("dict", <<"limit", "page", "name", "phones">>, <<l, p, n, ph>>) :
        l \in {Absent, None, IntV("10")},
        p \in {Absent, IntV("2")},
        n \in {Absent, None, Str("John")},
        ph \in Nested2 \cup {Absent}}

\* The two filter DTOs handed to the conversion: an absent optional field is
\* None, limit and page always hold an int.
DtoInputs ==
    {[kind |-> "CustomerFiltersSchema",
      keys |-> <<"name", "email", "created_at_from", "created_at_to", "limit", "page">>,
      items |-> <<n, e, f, None, l, p>>] :
        n \in {None, Str("John")}, e \in {None, Str("j@x.io")},
        f \in {None, Str("2024-01-01")},
        l \in {IntV("10"), IntV("20")}, p \in {IntV("1"), IntV("2")}}
    \cup
    {[kind |-> "CustomerGetOrdersSchema",
      keys |-> <<"customer_id", "limit", "page">>,
      items |-> <<IntV("5"), l, p>>] :
        l \in {IntV("10"), IntV("20")}, p \in {IntV("1"), IntV("2")}}

FilterInputs == DictInputs \cup DtoInputs

\* No request is being served.
InitPure(inputs) ==
    /\ orders = {}
    /\ pc = <<>>
    /\ op = <<>>
    /\ arg = <<>>
    /\ service = <<>>
    /\ clients = <<>>
    /\ closes = <<>>
    /\ inflight = <<>>
    /\ log = <<>>
    /\ ret = <<>>
    /\ input \in inputs
    /\ output = <<>>

InitFilter == InitPure(FilterInputs)

\* _convert_filter_data_to_retail_crm_style is applied to the input.
Convert ==
    /\ output = <<>>
    /\ output' = <<ConvertFilter(input)>>
    /\ UNCHANGED <<orders, pc, op, arg, service, clients, closes, inflight, log, ret, input>>

NextFilter == Convert

SpecFilter == InitFilter /\ [][NextFilter]_vars

\* ----------------------------------------------------- phone normalization
\* [item.get("number") for item in v if item.get("number")]
RECURSIVE Numbers(_)
Numbers(items) ==
    IF items = <<>> THEN <<>>
    ELSE IF Truthy(DictGet(Head(items), "number"))
         THEN <<DictGet(Head(items), "number")>> \o Numbers(Tail(items))
         ELSE Numbers(Tail(items))

\* parse_phones with the empty list treated like None.
ParsePhonesEmptyToNone(v) ==
    IF v.t = "none" \/ (v.t = "list" /\ v.items = <<>>) THEN Return(None)
    ELSE IF v.t = "list" /\ v.items[1].t = "dict"
         THEN IF \E i \in DOMAIN v.items : v.items[i].t # "dict"
              THEN Raise("AttributeError", <<"object has no attribute 'get'">>)
              ELSE Return(List(Numbers(v.items)))
         ELSE Return(v)

\* CustomerGetSchema.parse_phones.  item.get on an item that is no dict
\* raises AttributeError.
ParsePhones(v) ==
    IF v.t = "none" THEN Return(None)
    ELSE IF v.t = "list"
         THEN IF v.items = <<>> THEN Return(List(<<>>))
              ELSE IF v.items[1].t = "dict"
                   THEN IF \E i \in DOMAIN v.items : v.items[i].t # "dict"
                        THEN Raise("AttributeError", <<"object has no attribute 'get'">>)
                        ELSE Return(List(Numbers(v.items)))
              ELSE IF v.items[1].t = "str" THEN Return(v)
              ELSE Return(v)
         ELSE Return(v)

\* The elements of a phones list: strings, an int, None, and entries with
\* and without a usable number.
PhoneElems ==
    {Str("1"), Str("2"), IntV("5"), None, Dict(<<"number">>, <<Str("")>>)}
    \cup PhoneDicts

PhoneInputs ==
    {None, Str("1"), IntV("5"), Dict(<<"number">>, <<Str("1")>>)}
    \cup {List(q) : q \in SeqsUpTo(PhoneElems, MaxLen)}

InitPhones == InitPure(PhoneInputs)

\* The validator runs on the raw phones value.
Validate ==
    /\ output = <<>>
    /\ output' = <<ParsePhones(input)>>
    /\ UNCHANGED <<orders, pc, op, arg, service, clients, closes, inflight, log, ret, input>>

NextPhones == Validate

SpecPhones == InitPhones /\ [][NextPhones]_vars

\* ------------------------------------------------- query parameters alone
\* _prepare_request_params writing into the caller's mapping.
PrepareParamsInPlace(params) ==
    [ret |-> PrepareRequestParams(params),
     caller |-> IF params # <<>> /\ params[1] # {}
                THEN <<PrepareRequestParams(params)>>
                ELSE params]

\* One call of _prepare_request_params: what it returns, and the caller's
\* argument after the call.  The key is stored into params.copy(), or into
\* a new dict, never into the argument.
PrepareParamsCall(params) ==
    [ret |-> PrepareRequestParams(params), caller |-> params]

ParamKeys == {<<"a">>, <<"by">>, <<"limit">>, <<"apiKey">>}

ParamValues == {IntV("1"), Str("id"), Str("other")}

\* None, and every mapping of some of the keys to values.
ParamInputs ==
    {<<>>}
    \cup {<<{<<k, f[k]>> : k \in ks}>> : f \in [ParamKeys -> ParamValues],
                                         ks \in SUBSET ParamKeys}

InitParams == InitPure(ParamInputs)

\* _prepare_request_params is applied to the input.
PrepareParams ==
    /\ output = <<>>
    /\ output' = <<PrepareParamsCall(input)>>
    /\ UNCHANGED <<orders, pc, op, arg, service, clients, closes, inflight, log, ret, input>>

NextParams == PrepareParams

SpecParams == InitParams /\ [][NextParams]_vars

\* --------------------------------------------------- the pipeline alone
\* Statuses a response can carry: 2xx, a redirect, client and server errors.
ResponseStatuses == Statuses \cup {201, 301}

\* Every way client.request can end, a response of any status with any
\* body: no JSON, or a JSON payload whose envelope reports success or not.
RequestOutcomes ==
    NetworkFailures
    \cup {Outcome("response", x, t, j) :
            x \in ResponseStatuses,
            t \in {"", "gone"},
            j \in {<<>>} \cup {<<p>> : p \in FailurePayloads \cup ResourcePayloads}}

InitRequest == InitPure(RequestOutcomes)

\* _make_request resumes after client.request has ended with the input.
Resume ==
    /\ output = <<>>
    /\ output' = <<MakeRequest(input)>>
    /\ UNCHANGED <<orders, pc, op, arg, service, clients, closes, inflight, log, ret, input>>

NextRequest == Resume

SpecRequest == InitRequest /\ [][NextRequest]_vars

\* ------------------------------------------------------------- properties
Range(q) == {q[i] : i \in DOMAIN q}

IsPayment(r) == op[r] = "create_payment"

\* The calls request r has issued so far, ended or still in flight.
PostsEnded(r) == {i \in DOMAIN log[r] : log[r][i].call.method = POST}
PostsInFlight(r) == {i \in DOMAIN inflight[r] : inflight[r][i].call.method = POST}
GetsInFlight(r) == {i \in DOMAIN inflight[r] : inflight[r][i].call.method = GET}
CallsIssued(r) == Len(log[r]) + Len(inflight[r])

\* The backend reported failure: a non-2xx status, or a 2xx payload whose
\* success indicator is not true.
NonSuccessStatus(out) == out.kind = "response" /\ ~IsSuccessStatus(out.status)
SuccessFalse(out) ==
    /\ out.kind = "response"
    /\ IsSuccessStatus(out.status)
    /\ out.json # <<>>
    /\ out.json[1].success = <<FALSE>>
SuccessMissing(out) ==
    /\ out.kind = "response"
    /\ IsSuccessStatus(out.status)
    /\ out.json # <<>>
    /\ out.json[1].success = <<>>
NoOrderRecord(out) ==
    /\ out.kind = "response"
    /\ IsSuccessStatus(out.status)
    /\ out.json # <<>>
    /\ out.json[1].success = <<TRUE>>
    /\ (out.json[1].wrapped = <<>> \/ DOMAIN out.json[1].wrapped[1] = {})
BackendReportsFailure(out) ==
    NonSuccessStatus(out) \/ SuccessFalse(out) \/ SuccessMissing(out)

\* The call did not hand a validated payload to the operation.
CallFailed(out) == out.kind # "response" \/ out.json = <<>> \/ BackendReportsFailure(out)

\* The kinds of error as a caller can tell them apart: all are plain
\* Exceptions, told apart by how the message starts.
IsTransportError(e) ==
    Raised(e) /\ e.cls = "Exception" /\ e.msg[1] = "CRM API error: "
IsSemanticError(e) ==
    /\ Raised(e) /\ e.cls = "Exception" /\ Len(e.msg) >= 2
    /\ e.msg[1] = "Request error: " /\ e.msg[2] = "RetailCRM API error: "
NotFoundMessage(a) == <<"Order with id ", ToString(a), " not found">>
IsNotFoundError(e, a) ==
    Raised(e) /\ e.cls = "Exception" /\ e.msg = NotFoundMessage(a)

Ended(r) == ret[r] # <<>>

\* C1: in create_payment the payment POST is issued at most once, and only
\* after the existence GET for the same order id has ended with a payload
\* whose success is true and whose order record is non-empty; it is never
\* in flight together with the read, and never issued when the read raised
\* or reported the order absent.
C1_ReadThenWrite ==
    \A r \in Reqs : IsPayment(r) =>
        /\ Cardinality(PostsEnded(r)) + Cardinality(PostsInFlight(r)) <= 1
        /\ (PostsEnded(r) \cup PostsInFlight(r) # {}) =>
              /\ Len(log[r]) >= 1
              /\ log[r][1].call = Call(GET, ORDER_GET(arg[r]))
              /\ ReportsOrder(log[r][1].out)
              /\ 1 \notin PostsEnded(r)
              /\ GetsInFlight(r) = {}

C1_Witness ==
    \E r \in Reqs :
        /\ IsPayment(r)
        /\ Len(log[r]) = 2
        /\ log[r][2].call = Call(POST, PAYMENTS_CREATE)

\* C2: create_payment fails with the error 'Order with id <id> not found'
\* when the existence read returns a non-2xx status, when it returns a
\* payload whose success indicator is false, and when it returns a
\* successful payload with no order record.
C2_ReadFailureIsNotFound ==
    \A r \in Reqs :
        (/\ IsPayment(r)
         /\ Len(log[r]) >= 1
         /\ \/ NonSuccessStatus(log[r][1].out)
            \/ SuccessFalse(log[r][1].out)
            \/ NoOrderRecord(log[r][1].out))
        => (Ended(r) /\ IsNotFoundError(ret[r][1], arg[r]))

\* C3: an outbound call that returns a non-2xx status makes the operation
\* fail with a 'CRM API error' whose message holds the status code and the
\* response body text; nothing is returned.
C3_TransportError ==
    \A r \in Reqs : \A i \in DOMAIN log[r] :
        NonSuccessStatus(log[r][i].out) =>
            /\ Ended(r)
            /\ IsTransportError(ret[r][1])
            /\ ToString(log[r][i].out.status) \in Range(ret[r][1].msg)
            /\ log[r][i].out.text \in Range(ret[r][1].msg)

C3_Witness ==
    \E r \in Reqs : \E i \in DOMAIN log[r] :
        /\ NonSuccessStatus(log[r][i].out)
        /\ log[r][i].out.status = 500
        /\ log[r][i].out.text = "internal"
        /\ Ended(r)

\* C4: an outbound call that returns 2xx with a false success indicator
\* makes the operation fail with an error of the semantic kind, which is not
\* of the transport kind and whose message holds the backend's errorMsg; a
\* non-2xx failure is never of the semantic kind.
C4_SemanticError ==
    \A r \in Reqs : \A i \in DOMAIN log[r] :
        /\ SuccessFalse(log[r][i].out) =>
              /\ Ended(r)
              /\ IsSemanticError(ret[r][1])
              /\ ~IsTransportError(ret[r][1])
              /\ log[r][i].out.json[1].errorMsg # <<>> =>
                     log[r][i].out.json[1].errorMsg[1] \in Range(ret[r][1].msg)
        /\ NonSuccessStatus(log[r][i].out) =>
              (Ended(r) /\ ~IsSemanticError(ret[r][1]))

C4_Witness ==
    \E r \in Reqs : \E i \in DOMAIN log[r] :
        /\ SuccessFalse(log[r][i].out)
        /\ log[r][i].out.json[1].errorMsg = <<"bad">>
        /\ Ended(r)

\* C5: when the order exists and both calls succeed, create_payment issues
\* exactly one existence GET and then exactly one payment POST, and returns
\* the payment id the backend sent, whether the payment is wrapped under
\* 'payment' or sits unwrapped at the top level of the payload.
C5_PaymentId ==
    \A r \in Reqs : (IsPayment(r) /\ Ended(r)) =>
        /\ Returned(ret[r][1]) =>
              /\ Len(log[r]) = 2 /\ inflight[r] = <<>>
              /\ log[r][1].call = Call(GET, ORDER_GET(arg[r]))
              /\ log[r][2].call = Call(POST, PAYMENTS_CREATE)
        /\ (Len(log[r]) = 2 /\ ~CallFailed(log[r][2].out)) =>
              LET p == log[r][2].out.json[1]
                  wrapped == p.wrapped # <<>> /\ DOMAIN p.wrapped[1] # {}
              IN  /\ (wrapped /\ "id" \in DOMAIN p.wrapped[1]) =>
                        (Returned(ret[r][1]) /\ ret[r][1].value.id = p.wrapped[1].id)
                  /\ (~wrapped /\ "id" \in DOMAIN p.top) =>
                        (Returned(ret[r][1]) /\ ret[r][1].value.id = p.top.id)

C5_Witness ==
    \E r \in Reqs :
        /\ IsPayment(r) /\ Ended(r) /\ Len(log[r]) = 2
        /\ ~CallFailed(log[r][2].out)
        /\ log[r][2].out.json[1].wrapped = <<>>
        /\ log[r][2].out.json[1].top = RTop
        /\ Returned(ret[r][1])
        /\ ret[r][1].value.id = 9

\* C6 as claimed: whenever the payment POST for order X reaches the
\* backend, order X exists in the backend at that moment.
C6_OrderExistsAtWrite ==
    \A r \in Reqs : \A i \in DOMAIN log[r] :
        (/\ IsPayment(r)
         /\ log[r][i].call.method = POST
         /\ log[r][i].out.kind = "response")
        => log[r][i].existed

\* C6 as amended: whenever create_payment has issued the payment POST for
\* order X, order X existed in the backend at the moment the backend
\* answered the existence read before it (the order may be gone by the time
\* the POST arrives).
C6_OrderExistedAtRead ==
    \A r \in Reqs :
        (IsPayment(r) /\ PostsEnded(r) \cup PostsInFlight(r) # {})
        => (Len(log[r]) >= 1 /\ log[r][1].existed)

C6_Witness ==
    \E r \in Reqs :
        /\ IsPayment(r) /\ Len(log[r]) = 2
        /\ log[r][1].existed
        /\ log[r][2].call.method = POST
        /\ log[r][2].out.kind = "response"
        /\ ~log[r][2].existed

\* C7: whenever the backend reports failure for an outbound call (non-2xx,
\* or 2xx with a success indicator that is not true), the operation raises
\* and returns nothing; a list operation never returns an empty list then.
C7_FailureRaises ==
    \A r \in Reqs : \A i \in DOMAIN log[r] :
        BackendReportsFailure(log[r][i].out) => (Ended(r) /\ Raised(ret[r][1]))

C7_Witness ==
    \E r \in Reqs :
        /\ IsListOp(op[r]) /\ Len(log[r]) = 1
        /\ SuccessFalse(log[r][1].out)
        /\ Ended(r) /\ Raised(ret[r][1])

\* C8: every error that escapes an operation is a TransportError, a
\* SemanticError or a NotFoundError, whatever the outcome of the HTTP call
\* and whatever the shape of the validated payload.
C8_ErrorTaxonomy ==
    \A r \in Reqs : (Ended(r) /\ Raised(ret[r][1])) =>
        \/ IsTransportError(ret[r][1])
        \/ IsSemanticError(ret[r][1])
        \/ IsNotFoundError(ret[r][1], arg[r])

\* C9: no call is retried: the list and create operations for customers and
\* orders issue exactly one call per invocation, create_payment at most two
\* (the GET, then at most one POST), and once a call has failed the
\* operation issues no further call and ends in failure.
C9_NoRetry ==
    \A r \in Reqs :
        /\ CallsIssued(r) <= (IF IsPayment(r) THEN 2 ELSE 1)
        /\ Ended(r) =>
              /\ inflight[r] = <<>>
              /\ ~IsPayment(r) => Len(log[r]) = 1
              /\ IsPayment(r) => Len(log[r]) \in {1, 2}
        /\ IsPayment(r) =>
              /\ \A i \in DOMAIN log[r] : log[r][i].call.method = (IF i = 1 THEN GET ELSE POST)
              /\ \A i \in DOMAIN inflight[r] :
                    inflight[r][i].call.method = (IF Len(log[r]) = 0 THEN GET ELSE POST)
        /\ \A i \in DOMAIN log[r] :
              CallFailed(log[r][i].out) =>
                  /\ i = Len(log[r])
                  /\ inflight[r] = <<>>
                  /\ Ended(r) /\ Raised(ret[r][1])

C9_Witness ==
    \E r \in Reqs :
        /\ IsPayment(r) /\ Len(log[r]) = 1
        /\ log[r][1].out.kind = "timeout"
        /\ pc[r] = "complete"

\* C10: every request served through get_crm_service gets a client of its
\* own, created at the start; the client is open while the operation runs
\* and every call is handed to an open client; the client is closed exactly
\* once before the request is complete, whether the operation returned or
\* raised.
C10_ClientScope ==
    /\ \A r \in Reqs : pc[r] # "idle" => service[r] \in DOMAIN clients
    /\ \A r1, r2 \in Reqs :
          (r1 # r2 /\ pc[r1] # "idle" /\ pc[r2] # "idle") => service[r1] # service[r2]
    /\ \A r \in Reqs :
          /\ pc[r] \in {"handler", "running", "done"} =>
                (clients[service[r]] = "open" /\ closes[service[r]] = 0)
          /\ pc[r] = "complete" =>
                (clients[service[r]] = "closed" /\ closes[service[r]] = 1)
          /\ \A i \in DOMAIN inflight[r] : inflight[r][i].open
          /\ \A i \in DOMAIN log[r] : log[r][i].open

C10_Witness ==
    \E r1, r2 \in Reqs :
        /\ pc[r1] = "complete" /\ Raised(ret[r1][1])
        /\ pc[r2] = "complete" /\ Returned(ret[r2][1])
        /\ Len(clients) >= 2


\* The value of a top-level key of a conversion input, Absent without it.
TopValue(in, key) ==
    IF \E i \in DOMAIN in.keys : in.keys[i] = key
    THEN in.items[CHOOSE i \in DOMAIN in.keys : in.keys[i] = key]
    ELSE Absent

Converted == output # <<>>

\* The output pairs whose key starts with filter[<key>].
Under(params, key) ==
    {q \in params : Len(q[1]) >= 2 /\ q[1][1] = "filter" /\ q[1][2] = key}

JohnFilters ==
    [kind |-> "CustomerFiltersSchema",
     keys |-> <<"name", "email", "created_at_from", "created_at_to", "limit", "page">>,
     items |-> <<Str("John"), None, None, None, IntV("10"), IntV("2")>>]

\* C11: the conversion emits the input's non-None limit and page under
\* exactly the top-level keys limit and page with their values unchanged,
\* and produces no key filter[limit]... or filter[page]...; the filters
\* {name: John, limit: 10, page: 2} yield exactly
\* {limit: 10, page: 2, filter[name]: John}.
C11_PaginationTopLevel ==
    Converted =>
        /\ \A k \in {"limit", "page"} :
              /\ (TopValue(input, k) # Absent /\ TopValue(input, k).t # "none") =>
                     /\ <<<<k>>, TopValue(input, k)>> \in output[1]
                     /\ Cardinality({q \in output[1] : q[1] = <<k>>}) = 1
              /\ Under(output[1], k) = {}
        /\ input = JohnFilters =>
              output[1] = {<<<<"limit">>, IntV("10")>>, <<<<"page">>, IntV("2")>>,
                           <<<<"filter", "name">>, Str("John")>>}

C11_Witness == Converted /\ input = JohnFilters

TwoPhones ==
    Mapping("dict", <<"phones">>,
            <<List(<<Dict(<<"number">>, <<Str("1")>>), Dict(<<"number">>, <<Str("2")>>)>>)>>)

\* C12: flattening a list-valued filter keeps every element: for
\* {phones: [{number: 1}, {number: 2}]} the output has at least two keys
\* under filter[phones] and their values include both 1 and 2; a list of n
\* distinct scalars yields n pairs.
C12_ListKeepsElements ==
    Converted =>
        /\ input = TwoPhones =>
              /\ Cardinality(Under(output[1], "phones")) >= 2
              /\ {Str("1"), Str("2")} \subseteq {q[2] : q \in Under(output[1], "phones")}
        /\ LET ph == TopValue(input, "phones")
           IN  (/\ ph # Absent
                /\ ph.t = "list"
                /\ \A i \in DOMAIN ph.items : ph.items[i].t = "str"
                /\ \A i, j \in DOMAIN ph.items : i # j => ph.items[i] # ph.items[j])
               => Cardinality(Under(output[1], "phones")) = Len(ph.items)

\* C13: no output key of the conversion carries a None value, for a DTO and
\* for a plain mapping, whether the None sits at the top level, in a nested
\* mapping or in a list element.
C13_NoNoneValues ==
    Converted => \A q \in output[1] : q[2].t # "none"

RECURSIVE ListFree(_)
ListFree(v) ==
    /\ v.t # "list"
    /\ \A i \in DOMAIN v.items : ListFree(v.items[i])

\* The pairs path -> leaf of the scalar leaves (None is no scalar) below v.
RECURSIVE LeafPairs(_, _)
LeafPairs(path, v) ==
    IF v.t = "dict"
    THEN UNION {LeafPairs(path \o <<v.keys[i]>>, v.items[i]) : i \in DOMAIN v.items}
    ELSE IF v.t = "none" THEN {}
    ELSE {<<path, v>>}

\* C18: for a list-free input the output is exactly: limit and page at the
\* top level, plus one pair filter[k1]...[kn] = v for each scalar leaf v
\* reached through the key path k1..kn of the other entries, and nothing
\* else; every key other than limit and page begins with filter[.
C18_ListFreeExact ==
    (Converted /\ \A i \in DOMAIN input.items : ListFree(input.items[i])) =>
        /\ output[1] =
              {<<<<k>>, TopValue(input, k)>> :
                  k \in {k \in {"limit", "page"} :
                           TopValue(input, k) # Absent /\ TopValue(input, k).t # "none"}}
              \cup UNION {LeafPairs(<<"filter", Alias(input.kind, input.keys[i])>>,
                                    input.items[i]) :
                             i \in {i \in DOMAIN input.keys : input.keys[i] \notin {"limit", "page"}}}
        /\ \A q \in output[1] :
              q[1] \notin {<<"limit">>, <<"page">>} => (Len(q[1]) >= 2 /\ q[1][1] = "filter")


NonEmptyListOf(v, types) ==
    /\ v.t = "list"
    /\ v.items # <<>>
    /\ \A i \in DOMAIN v.items : v.items[i].t \in types

\* Every entry carries a number that is a non-empty string.
EntriesWithNumbers(v) ==
    /\ NonEmptyListOf(v, {"dict"})
    /\ \A i \in DOMAIN v.items :
          DictGet(v.items[i], "number").t = "str" /\ DictGet(v.items[i], "number").v # ""

\* C14: parse_phones maps None to None, [] to [], a list of plain strings
\* to the same list, and a list of entries each carrying a number to the
\* list of those numbers in the same order; None never becomes an empty
\* list and an empty list never becomes None.
C14_PhoneShapes ==
    Converted =>
        /\ input = None => output[1] = Return(None)
        /\ input = List(<<>>) => output[1] = Return(List(<<>>))
        /\ NonEmptyListOf(input, {"str"}) => output[1] = Return(input)
        /\ EntriesWithNumbers(input) =>
              output[1] = Return(List([i \in DOMAIN input.items |->
                                          DictGet(input.items[i], "number")]))
        /\ output[1] = Return(List(<<>>)) => input # None
        /\ output[1] = Return(None) => input # List(<<>>)

C14_Witness ==
    /\ input = List(<<Dict(<<"number">>, <<Str("1")>>), Dict(<<"number">>, <<Str("2")>>)>>)
    /\ output = <<Return(List(<<Str("1"), Str("2")>>))>>

\* C20: parse_phones never raises: a list of structured entries is
\* projected to the number values, entries without a usable number
\* dropped, and every other shape (a value that is no list, a list mixing
\* strings and structured entries in any order, a list of other elements)
\* is returned unchanged.
C20_NeverRaises ==
    Converted =>
        /\ Returned(output[1])
        /\ IF NonEmptyListOf(input, {"dict"})
           THEN /\ output[1].value.t = "list"
                /\ \A i \in DOMAIN output[1].value.items :
                      Truthy(output[1].value.items[i])
                /\ Len(output[1].value.items) =
                      Cardinality({i \in DOMAIN input.items :
                                     Truthy(DictGet(input.items[i], "number"))})
           ELSE output[1].value = input


IsCreate(r) == op[r] \in {"create_customer", "create_order", "create_payment"}

\* The create operation of request r has ended after its last call was
\* answered with a validated payload.
CreatedFrom(r) ==
    /\ IsCreate(r)
    /\ Ended(r)
    /\ inflight[r] = <<>>
    /\ Len(log[r]) = (IF IsPayment(r) THEN 2 ELSE 1)
    /\ ~CallFailed(log[r][Len(log[r])].out)

LastPayload(r) == log[r][Len(log[r])].out.json[1]

\* C15: when the validated payload of create_customer, create_order or
\* create_payment holds no id, neither in the wrapped resource nor at the
\* top level, the operation does not raise: it returns normally.
C15_MissingIdReturns ==
    \A r \in Reqs :
        (/\ CreatedFrom(r)
         /\ "id" \notin DOMAIN LastPayload(r).top
         /\ LastPayload(r).wrapped # <<>> => "id" \notin DOMAIN LastPayload(r).wrapped[1])
        => Returned(ret[r][1])

\* The result of building the DTO of request r from the record data alone.
BuiltFrom(r, data) ==
    IF RequiredFields(op[r]) \subseteq DOMAIN data
    THEN /\ Returned(ret[r][1])
         /\ \A f \in DOMAIN ret[r][1].value : ret[r][1].value[f] = data[f]
         /\ ret[r][1].value.id = data.id
    ELSE /\ Raised(ret[r][1])
         /\ ret[r][1].cls = "ValidationError"

\* C19: in create_customer, create_order and create_payment, if the
\* validated payload holds the resource under its type-named key and that
\* value is non-empty, the DTO is built from that value only (the top level
\* is not consulted, even when the wrapped value lacks a field); if the key
\* is absent or its value is empty, the DTO is built from the whole payload.
C19_Normalization ==
    \A r \in Reqs : CreatedFrom(r) =>
        LET p == LastPayload(r)
        IN  IF p.wrapped # <<>> /\ DOMAIN p.wrapped[1] # {}
            THEN BuiltFrom(r, p.wrapped[1])
            ELSE BuiltFrom(r, p.top)

C19_Witness ==
    \E r \in Reqs :
        /\ CreatedFrom(r)
        /\ op[r] = "create_order"
        /\ LastPayload(r).wrapped = <<RFull>>
        /\ LastPayload(r).top = RTop
        /\ Returned(ret[r][1])
        /\ ret[r][1].value.id = 7


\* Every request handed to the client so far: in flight or answered.
Requests(r) ==
    {inflight[r][i] : i \in DOMAIN inflight[r]}
    \cup {[call |-> log[r][i].call, params |-> log[r][i].params,
           headers |-> log[r][i].headers, open |-> log[r][i].open] :
             i \in DOMAIN log[r]}

\* C16: every outbound request of every operation, the order-existence read
\* of create_payment included, carries the configured API key in its query
\* parameters under apiKey, and in no header.
C16_ApiKeyInParams ==
    \A r \in Reqs : \A q \in Requests(r) :
        /\ <<<<"apiKey">>, API_KEY>> \in q.params
        /\ Cardinality({x \in q.params : x[1] = <<"apiKey">>}) = 1
        /\ \A h \in q.headers : h[2] # API_KEY.v /\ h[1] # "apiKey"

C16_Witness ==
    \E r \in Reqs :
        /\ IsPayment(r)
        /\ Len(log[r]) = 1
        /\ log[r][1].call.method = GET
        /\ log[r][1].params = {<<<<"by">>, Str("id")>>, <<<<"apiKey">>, API_KEY>>}
        /\ \E i \in DOMAIN inflight[r] : inflight[r][i].call.method = POST

HasContentType(q) ==
    <<"Content-Type", "application/x-www-form-urlencoded">> \in q.headers

\* C17: a request issued through _make_request carries the header
\* Content-Type: application/x-www-form-urlencoded if and only if its
\* method is POST; the GET requests carry no Content-Type header.
C17_ContentTypeIffPost ==
    \A r \in Reqs : \A q \in Requests(r) :
        /\ HasContentType(q) <=> q.call.method = POST
        /\ q.call.method = GET => \A h \in q.headers : h[1] # "Content-Type"


\* The caller's mapping before the call, {} for None.
Supplied == IF input = <<>> THEN {} ELSE input[1]

\* C21 as stated: _prepare_request_params leaves the caller's mapping
\* unmodified and returns a mapping in which every caller-supplied key
\* keeps its caller-supplied value, the only change being the added apiKey
\* entry; for None or an empty mapping it returns just {apiKey: key}.
C21_AllKeysKept ==
    Converted =>
        /\ output[1].caller = input
        /\ Supplied \subseteq output[1].ret
        /\ output[1].ret \ Supplied = {<<<<"apiKey">>, API_KEY>>}
        /\ Supplied = {} => output[1].ret = {<<<<"apiKey">>, API_KEY>>}

\* C21, amended: the caller's mapping is left unmodified; the returned
\* mapping has the caller's keys and apiKey, every caller-supplied key
\* other than apiKey keeps its value, and apiKey holds the configured key,
\* replacing a caller-supplied apiKey; for None or an empty mapping the
\* result is just {apiKey: key}.
C21_OtherKeysKept ==
    Converted =>
        /\ output[1].caller = input
        /\ {q \in Supplied : q[1] # <<"apiKey">>} =
              {q \in output[1].ret : q[1] # <<"apiKey">>}
        /\ {q \in output[1].ret : q[1] = <<"apiKey">>} = {<<<<"apiKey">>, API_KEY>>}
        /\ Supplied = {} => output[1].ret = {<<<<"apiKey">>, API_KEY>>}

C21_Witness ==
    /\ input = <<{<<<<"a">>, IntV("1")>>, <<<<"apiKey">>, Str("other")>>}>>
    /\ Converted
    /\ output[1].ret = {<<<<"a">>, IntV("1")>>, <<<<"apiKey">>, API_KEY>>}
    /\ output[1].caller = input


Is2xx(out) == out.kind = "response" /\ out.status >= 200 /\ out.status <= 299

\* C22: every payload _make_request returns was received with a 2xx status
\* and has a success field that is present and true; a payload whose
\* success is false or missing is never returned (with success and errorMsg
\* both missing the failure's message is 'Unknown error'), and a non-2xx
\* response is never validated: it fails as an HTTP error whatever its body.
C22_ReturnedIsValidated ==
    Converted =>
        /\ Returned(output[1]) =>
              /\ Is2xx(input)
              /\ input.json # <<>>
              /\ input.json[1].success = <<TRUE>>
              /\ output[1].value = input.json[1]
        /\ (Is2xx(input) /\ input.json # <<>> /\ input.json[1].success # <<TRUE>>) =>
              /\ Raised(output[1])
              /\ (input.json[1].success = <<>> /\ input.json[1].errorMsg = <<>>) =>
                    output[1].msg[Len(output[1].msg)] = "Unknown error"
        /\ (input.kind = "response" /\ ~Is2xx(input)) =>
              /\ Raised(output[1])
              /\ output[1].msg[1] = "CRM API error: "
              /\ \A i \in DOMAIN output[1].msg : output[1].msg[i] # "RetailCRM API error: "

C22_Witness ==
    /\ input = Outcome("response", 201, "",
                       <<Payload(<<TRUE>>, <<>>, <<RFull>>, EmptyRec, <<>>)>>)
    /\ output = <<Return(Payload(<<TRUE>>, <<>>, <<RFull>>, EmptyRec, <<>>))>>


\* create_payment of request r has finished, with a payment id or an error.
PaymentFinished(r) ==
    /\ Ended(r)
    /\ \/ Raised(ret[r][1])
       \/ Returned(ret[r][1]) /\ "id" \in DOMAIN ret[r][1].value

ReadTimedOut(r) ==
    IsPayment(r) /\ Len(log[r]) >= 1 /\ log[r][1].out.kind = "timeout"

\* C23: provided every outbound call ends in a response or in a timeout,
\* every create_payment invocation eventually finishes, with a payment id
\* or with an error; once the existence read has ended in a timeout, the
\* invocation has finished with an error and the payment-creation call is
\* not issued.
C23_PaymentTerminates ==
    /\ \A r \in 1..NumReqs :
          (IsPayment(r) /\ pc[r] = "handler") ~> PaymentFinished(r)
    /\ [](\A r \in 1..NumReqs :
            ReadTimedOut(r) =>
                /\ Ended(r) /\ Raised(ret[r][1])
                /\ PostsEnded(r) = {} /\ PostsInFlight(r) = {})

C23_Witness ==
    \E r \in Reqs :
        /\ ReadTimedOut(r)
        /\ pc[r] = "complete"
        /\ Raised(ret[r][1])
        /\ CallsIssued(r) = 1

====
